---- MODULE Spec2Model ----
(***************************************************************************)
(* Discovery -> generation pipeline of src/src/terraform_discovery.py and  *)
(* src/src/terraform_generator.py.                                         *)
(*                                                                         *)
(* Strings that the code takes apart or rebuilds (ids, tag values, names)  *)
(* are sequences of one-character strings: "i-1" is <<"i","-","1">>.  A    *)
(* literal of the code or an enumerated value of the provider that is only *)
(* copied into such a string (a type prefix, a record type) is one element *)
(* of the sequence.                                                        *)
(* Python dicts keep insertion order, so a dict is a sequence of           *)
(* [k |-> key, v |-> value] entries with pairwise distinct keys.           *)
(***************************************************************************)
EXTENDS Integers, Sequences, FiniteSets, TLC

VARIABLES
    clock,                 \* wall clock (datetime.now()), in ticks of a half second
    account,               \* what the provider's listing operations return
    outDirExists,          \* does the directory terraform_output exist
    snapshotFiles,         \* terraform_output/discovered_resources_<t>.json: t -> content
    dstate,                \* discovery process: "idle", "running", "done", "failed"
    dpc,                   \* next probe of discover_all_resources (NumProbes + 1: save)
    discovered_resources,  \* TerraformDiscovery.discovered_resources
    outcome,               \* per probe of the current run: how its call ended
    invoked,               \* the probes of the current run, in the order of their calls
    listedZones,           \* zone ids list_resource_record_sets was called with
    writes,                \* snapshot writes of the current discovery run
    errBudget,             \* failing provider calls still allowed
    runsLeft,              \* discovery runs still allowed
    gstate,                \* generation process: position in main()
    all_resources,         \* TerraformGenerator.discovered_resources
    regions,               \* TerraformGenerator.regions
    resource_names,        \* TerraformGenerator.resource_names
    bundle,                \* the files of the output directory: name -> content
    exitCode,              \* exit status of the generate process (-1: still running)
    logged,                \* logger.error messages of the generate process
    returned,              \* names handed out by _get_resource_name so far
    replay,                \* a second generator resolving the same resources again
    san,                   \* a string and the results of _sanitize_name applied to it
    frames                 \* per probe method in progress: its local list

dvars == <<dstate, dpc, discovered_resources, outcome, invoked, listedZones, writes>>
gvars == <<gstate, all_resources, regions, resource_names, bundle,
           exitCode, logged>>
nvars == <<returned, replay, san, frames>>
vars == <<clock, account, outDirExists, snapshotFiles, dvars, errBudget, runsLeft,
          gvars, nvars>>

---------------------------------------------------------------------------
(* Bounds of the model *)

MaxClock == 2
MaxErrors == 2
MaxRuns == 2
MaxResolved == 3
MaxLen == 3
MaxCalls == 2
MaxProbeCalls == 2

---------------------------------------------------------------------------
(* Strings *)

Range(s) == {s[i] : i \in DOMAIN s}

\* str.replace(c, to) for the one-character strings c of `from`
ReplaceChars(s, from, to) == [i \in DOMAIN s |-> IF s[i] \in from THEN to ELSE s[i]]

\* s.split('/')[-1]
LastSegment(s) ==
    IF "/" \notin Range(s) THEN s
    ELSE LET last == CHOOSE i \in DOMAIN s :
                        s[i] = "/" /\ \A j \in DOMAIN s : s[j] = "/" => j <= i
         IN  SubSeq(s, last + 1, Len(s))

DigitChar(d) == <<"0", "1", "2", "3", "4", "5", "6", "7", "8", "9">>[d + 1]

\* str(n) of a natural number
RECURSIVE IntToStr(_)
IntToStr(n) == IF n < 10 THEN <<DigitChar(n)>>
               ELSE IntToStr(n \div 10) \o <<DigitChar(n % 10)>>

---------------------------------------------------------------------------
(* Ordered dicts *)

DictKeys(d) == {d[i].k : i \in DOMAIN d}
DictHas(d, key) == key \in DictKeys(d)
DictIndex(d, key) == CHOOSE i \in DOMAIN d : d[i].k = key
DictGet(d, key, default) == IF DictHas(d, key) THEN d[DictIndex(d, key)].v ELSE default
DictSet(d, key, val) ==
    IF DictHas(d, key) THEN [d EXCEPT ![DictIndex(d, key)].v = val]
    ELSE Append(d, [k |-> key, v |-> val])

\* the concatenation of the sequences of ss
RECURSIVE Flatten(_)
Flatten(ss) ==
    IF Len(ss) = 0 THEN <<>>
    ELSE IF Len(ss) = 1 THEN ss[1]
    ELSE LET mid == Len(ss) \div 2
         IN  Flatten(SubSeq(ss, 1, mid)) \o Flatten(SubSeq(ss, mid + 1, Len(ss)))

\* every value list of a dict, concatenated in key order
DictValues(d) == Flatten([i \in DOMAIN d |-> d[i].v])

---------------------------------------------------------------------------
(* The provider: what each listing operation returns *)

\* the probes of discover_all_resources, in call order, by the key each one sets
ProbeOrderRecordsFirst ==
    <<"ec2_instances", "vpcs", "subnets", "security_groups",
      "route_tables", "internet_gateways", "nat_gateways", "elastic_ips",
      "volumes", "snapshots", "route53_records", "route53_zones",
      "s3_buckets", "iam_roles", "iam_policies">>
ProbeOrder == <<"ec2_instances", "vpcs", "subnets", "security_groups",
                "route_tables", "internet_gateways", "nat_gateways", "elastic_ips",
                "volumes", "snapshots", "route53_zones", "route53_records",
                "s3_buckets", "iam_roles", "iam_policies">>

NumProbes == Len(ProbeOrder)
Kinds == Range(ProbeOrder)
ProbeIndex(kind) == CHOOSE i \in DOMAIN ProbeOrder : ProbeOrder[i] = kind

\* the 'type' each probe gives its resources
TypeOf(kind) ==
    CASE kind = "ec2_instances"     -> "aws_instance"
      [] kind = "vpcs"              -> "aws_vpc"
      [] kind = "subnets"           -> "aws_subnet"
      [] kind = "security_groups"   -> "aws_security_group"
      [] kind = "route_tables"      -> "aws_route_table"
      [] kind = "internet_gateways" -> "aws_internet_gateway"
      [] kind = "nat_gateways"      -> "aws_nat_gateway"
      [] kind = "elastic_ips"       -> "aws_eip"
      [] kind = "volumes"           -> "aws_ebs_volume"
      [] kind = "snapshots"         -> "aws_ebs_snapshot"
      [] kind = "route53_zones"     -> "aws_route53_zone"
      [] kind = "route53_records"   -> "aws_route53_record"
      [] kind = "s3_buckets"        -> "aws_s3_bucket"
      [] kind = "iam_roles"         -> "aws_iam_role"
      [] kind = "iam_policies"      -> "aws_iam_policy"

\* One item of a listing response.  id: the item's id field (InstanceId, VpcId,
\* AllocationId, the zone's Id, a record set's Name, ...); alt: an address's
\* PublicIp; state: State (instances: State.Name); tags: Tags, a list of
\* Key/Value pairs; az: Placement.AvailabilityZone; rtype: a record set's Type.
\* A field the provider does not send for a kind is empty.
Item(id, state, tags, az) ==
    [id |-> id, alt |-> <<>>, state |-> state, tags |-> tags, az |-> az, rtype |-> ""]
RecordSet(name, rtype) ==
    [id |-> name, alt |-> <<>>, state |-> "", tags |-> <<>>, az |-> <<>>, rtype |-> rtype]
Address(alloc, ip) ==
    [id |-> alloc, alt |-> ip, state |-> "", tags |-> <<>>, az |-> <<>>, rtype |-> ""]
Tag(key, value) == [Key |-> key, Value |-> value]

\* {tag['Key']: tag['Value'] for tag in item.get('Tags', [])}
RECURSIVE TagDict(_)
TagDict(tags) ==
    IF tags = <<>> THEN <<>>
    ELSE LET n == Len(tags)
         IN  DictSet(TagDict(SubSeq(tags, 1, n - 1)), tags[n].Key, tags[n].Value)

\* instance['State']['Name'] not in ['terminated', 'shutting-down']
InstanceKeptLoose(state) == state # "terminated"
InstanceKept(state) == state \notin {"terminated", "shutting-down"}

\* x['State'] not in ['deleted', 'deleting'] (NAT gateways, volumes, EBS snapshots)
NatGatewayKept(state) == state \notin {"deleted", "deleting"}
VolumeKept(state) == state \notin {"deleted", "deleting"}
SnapshotKept(state) == state \notin {"deleted", "deleting"}

\* record['Type'] not in ['NS', 'SOA']
RecordKeptLoose(rtype) == rtype # "NS"
RecordKept(rtype) == rtype \notin {"NS", "SOA"}

Kept(kind, item) ==
    CASE kind = "ec2_instances" -> InstanceKept(item.state)
      [] kind = "nat_gateways"  -> NatGatewayKept(item.state)
      [] kind = "volumes"       -> VolumeKept(item.state)
      [] kind = "snapshots"     -> SnapshotKept(item.state)
      [] OTHER                  -> TRUE

\* the 'id' a probe gives a resource
IdOf(kind, item) ==
    CASE kind = "elastic_ips"   -> IF item.id # <<>> THEN item.id ELSE item.alt
      [] kind = "route53_zones" -> LastSegment(item.id)
      [] OTHER                  -> item.id

\* the 'tags' a probe gives a resource
TagsOf(kind, item) ==
    IF kind \in {"route53_zones", "s3_buckets"} THEN <<>> ELSE TagDict(item.tags)

\* the dict a probe appends for one listed item; zone_id is set for DNS records only
Resource(kind, item) ==
    [type |-> TypeOf(kind), id |-> IdOf(kind, item), data |-> item,
     zone_id |-> <<>>, tags |-> TagsOf(kind, item)]

\* the list a probe builds from one listing response
ProbeResult(kind, listing) ==
    LET Test(item) == Kept(kind, item)
        kept == SelectSeq(listing, Test)
    IN  [i \in DOMAIN kept |-> Resource(kind, kept[i])]

\* the dict for one record set, its id built on the zone's Id as the provider
\* gives it
RecordResourceFullZone(zone, record) ==
    [type |-> "aws_route53_record",
     id |-> zone.data.id \o <<"_">> \o record.id \o <<"_", record.rtype>>,
     data |-> record, zone_id |-> zone.data.id, tags |-> <<>>]

\* the dict discover_route53_records appends for one record set of a zone
RecordResource(zone, record) ==
    [type |-> "aws_route53_record",
     id |-> zone.id \o <<"_">> \o record.id \o <<"_", record.rtype>>,
     data |-> record, zone_id |-> zone.data.id, tags |-> <<>>]

RecordsOfZone(zone, listing) ==
    LET Test(record) == RecordKept(record.rtype)
        kept == SelectSeq(listing, Test)
    IN  [i \in DOMAIN kept |-> RecordResource(zone, kept[i])]

\* the records list after the zones zones[1..n] have been listed
RECURSIVE RecordsResult(_, _, _)
RecordsResult(zones, recordSets, n) ==
    IF n = 0 THEN <<>>
    ELSE RecordsResult(zones, recordSets, n - 1)
         \o RecordsOfZone(zones[n], recordSets[zones[n].data.id])

---------------------------------------------------------------------------
(* Discovery: TerraformDiscovery *)

\* how a provider call ends: normally, with botocore's ClientError, or with
\* any other exception (a timeout, a connection error)
Outcomes == {"ok", "client_error", "other_error"}

\* "except ClientError": the probe's handler catches a ClientError and nothing else
PropagatesAny(o) == o # "ok"
Propagates(o) == o = "other_error"

\* a failed probe recorded as an empty list
AfterFailedProbeEmptyList(found, kind) == DictSet(found, kind, <<>>)

\* the result map after a probe whose provider call raised: the assignment to
\* self.discovered_resources[kind] is the last statement of the try block and
\* is not reached, and the handler only logs
AfterFailedProbe(found, kind) == found

NoDiscoveryChange == UNCHANGED <<clock, account, outDirExists, snapshotFiles, runsLeft,
                                 gvars, nvars>>

\* main(): TerraformDiscovery() followed by discover_all_resources()
StartDiscovery ==
    /\ dstate \in {"idle", "done", "failed"}
    /\ gstate \in {"idle", "done"}
    /\ runsLeft > 0
    /\ runsLeft' = runsLeft - 1
    /\ dstate' = "running"
    /\ dpc' = 1
    /\ discovered_resources' = <<>>
    /\ outcome' = [k \in Kinds |-> "pending"]
    /\ invoked' = <<>>
    /\ listedZones' = <<>>
    /\ writes' = 0
    /\ UNCHANGED <<clock, account, outDirExists, snapshotFiles, errBudget, gvars,
                   nvars>>

\* one discover_<kind> method of a kind with a single listing call
Probe(kind) ==
    /\ dstate = "running"
    /\ dpc = ProbeIndex(kind)
    /\ invoked' = Append(invoked, kind)
    /\ \E o \in Outcomes :
        /\ o # "ok" => errBudget > 0
        /\ errBudget' = IF o = "ok" THEN errBudget ELSE errBudget - 1
        /\ outcome' = [outcome EXCEPT ![kind] = o]
        /\ discovered_resources' =
              IF o = "ok"
              THEN DictSet(discovered_resources, kind,
                           ProbeResult(kind, account.listing[kind]))
              ELSE AfterFailedProbe(discovered_resources, kind)
        /\ IF Propagates(o)
           THEN dstate' = "failed" /\ dpc' = dpc
           ELSE dstate' = "running" /\ dpc' = dpc + 1
    /\ UNCHANGED <<listedZones, writes>>
    /\ NoDiscoveryChange

discover_ec2_instances == Probe("ec2_instances")
discover_vpcs == Probe("vpcs")
discover_subnets == Probe("subnets")
discover_security_groups == Probe("security_groups")
discover_route_tables == Probe("route_tables")
discover_internet_gateways == Probe("internet_gateways")
discover_nat_gateways == Probe("nat_gateways")
discover_elastic_ips == Probe("elastic_ips")
discover_volumes == Probe("volumes")
discover_snapshots == Probe("snapshots")
discover_route53_zones == Probe("route53_zones")
discover_s3_buckets == Probe("s3_buckets")
discover_iam_roles == Probe("iam_roles")
discover_iam_policies == Probe("iam_policies")

\* the zones discover_route53_records iterates over
ZonesToList(found) == DictGet(found, "route53_zones", <<>>)

\* the records of the zones listed before the failing call kept as the entry
RecordsAfterFailureKeepsListed(found, zones, recordSets, failAt) ==
    DictSet(found, "route53_records", RecordsResult(zones, recordSets, failAt - 1))

\* the result map after list_resource_record_sets raised for zone number failAt:
\* the local list 'records' is dropped with the frame, the assignment after the
\* loop is not reached
RecordsAfterFailure(found, zones, recordSets, failAt) ==
    AfterFailedProbe(found, "route53_records")

\* discover_route53_records: one list_resource_record_sets call per zone; the call
\* for zone number failAt (0: none) ends with o
discover_route53_records ==
    /\ dstate = "running"
    /\ dpc = ProbeIndex("route53_records")
    /\ invoked' = Append(invoked, "route53_records")
    /\ LET zones == ZonesToList(discovered_resources)
       IN \E failAt \in 0..Len(zones), o \in Outcomes :
            /\ (o = "ok") <=> (failAt = 0)
            /\ o # "ok" => errBudget > 0
            /\ errBudget' = IF o = "ok" THEN errBudget ELSE errBudget - 1
            /\ outcome' = [outcome EXCEPT !["route53_records"] = o]
            /\ listedZones' =
                  [i \in 1..(IF failAt = 0 THEN Len(zones) ELSE failAt)
                      |-> zones[i].data.id]
            /\ discovered_resources' =
                  IF o = "ok"
                  THEN DictSet(discovered_resources, "route53_records",
                               RecordsResult(zones, account.records, Len(zones)))
                  ELSE RecordsAfterFailure(discovered_resources, zones,
                                           account.records, failAt)
            /\ IF Propagates(o)
               THEN dstate' = "failed" /\ dpc' = dpc
               ELSE dstate' = "running" /\ dpc' = dpc + 1
    /\ UNCHANGED writes
    /\ NoDiscoveryChange

\* ticks of the clock in one second
TicksPerSecond == 2

\* datetime.now().strftime("%Y%m%d_%H%M%S"): the file name has the second of the
\* save and drops the fraction of the second
SnapshotName(now) == now \div TicksPerSecond

\* f[name] := content, creating or truncating the file (open(name, 'w'))
WriteFile(files, name, content) ==
    [n \in DOMAIN files \cup {name} |-> IF n = name THEN content ELSE files[n]]

\* the position of _save_discovery_results in discover_all_resources
SavePoint == NumProbes + 1

\* _save_discovery_results, then the return of discover_all_resources; open()
\* raises FileNotFoundError when terraform_output does not exist
save_discovery_results ==
    /\ dstate = "running"
    /\ dpc = SavePoint
    /\ IF outDirExists
       THEN /\ snapshotFiles' = WriteFile(snapshotFiles, SnapshotName(clock),
                                          discovered_resources)
            /\ writes' = writes + 1
            /\ dstate' = "done"
       ELSE /\ dstate' = "failed"
            /\ UNCHANGED <<snapshotFiles, writes>>
    /\ dpc' = NumProbes + 2
    /\ UNCHANGED <<clock, account, outDirExists, discovered_resources, outcome,
                   invoked, listedZones, errBudget, runsLeft, gvars, nvars>>

\* time passes
Tick ==
    /\ clock < MaxClock
    /\ clock' = clock + 1
    /\ UNCHANGED <<account, outDirExists, snapshotFiles, dvars, errBudget, runsLeft,
                   gvars, nvars>>

---------------------------------------------------------------------------
(* Name Resolver: TerraformGenerator._sanitize_name, _get_resource_name *)

LowerLetters == {"a", "b", "c", "d", "e", "f", "g", "h", "i", "j", "k", "l", "m",
                 "n", "o", "p", "q", "r", "s", "t", "u", "v", "w", "x", "y", "z"}
UpperLetters == {"A", "B", "C", "D", "E", "F", "G", "H", "I", "J", "K", "L", "M",
                 "N", "O", "P", "Q", "R", "S", "T", "U", "V", "W", "X", "Y", "Z"}
DigitChars == {"0", "1", "2", "3", "4", "5", "6", "7", "8", "9"}

\* c.lower() of one character
LowerChar(c) ==
    IF c \in UpperLetters
    THEN LET pairs == {<<"A", "a">>, <<"B", "b">>, <<"C", "c">>, <<"D", "d">>,
                       <<"E", "e">>, <<"F", "f">>, <<"G", "g">>, <<"H", "h">>,
                       <<"I", "i">>, <<"J", "j">>, <<"K", "k">>, <<"L", "l">>,
                       <<"M", "m">>, <<"N", "n">>, <<"O", "o">>, <<"P", "p">>,
                       <<"Q", "q">>, <<"R", "r">>, <<"S", "s">>, <<"T", "t">>,
                       <<"U", "u">>, <<"V", "v">>, <<"W", "w">>, <<"X", "x">>,
                       <<"Y", "y">>, <<"Z", "z">>}
         IN  (CHOOSE pr \in pairs : pr[1] = c)[2]
    ELSE c

\* the characters re.sub(r'[^a-zA-Z0-9_-]', '_', name) keeps
NameChars == LowerLetters \cup UpperLetters \cup DigitChars \cup {"_", "-"}

ResourcePrefixDigit == <<"0", "_">>
ResourcePrefix == <<"r", "e", "s", "o", "u", "r", "c", "e", "_">>

\* _sanitize_name without the final lower()
SanitizeNameKeepCase(name) ==
    LET subbed == [i \in DOMAIN name |-> IF name[i] \in NameChars THEN name[i] ELSE "_"]
    IN  IF subbed # <<>> /\ subbed[1] \notin (LowerLetters \cup UpperLetters)
        THEN ResourcePrefix \o subbed
        ELSE subbed

\* _sanitize_name
SanitizeName(name) ==
    LET subbed == [i \in DOMAIN name |-> IF name[i] \in NameChars THEN name[i] ELSE "_"]
        sanitized == IF subbed # <<>> /\ subbed[1] \notin (LowerLetters \cup UpperLetters)
                     THEN ResourcePrefix \o subbed
                     ELSE subbed
    IN  [i \in DOMAIN sanitized |-> LowerChar(sanitized[i])]

\* _get_resource_name with the counter of a taken name read and not stored
GetResourceNameReuse(names, resource) ==
    LET base == IF DictHas(resource.tags, "Name")
                THEN SanitizeName(DictGet(resource.tags, "Name", <<>>))
                ELSE SanitizeName(resource.id)
    IN  IF DictHas(names, base)
        THEN [name |-> base \o <<"_">> \o IntToStr(DictGet(names, base, 0) + 1),
              names |-> names]
        ELSE [name |-> base, names |-> DictSet(names, base, 0)]

\* _get_resource_name with the provider id tried before the Name tag
GetResourceNameIdFirst(names, resource) ==
    LET base == IF resource.id # <<>>
                THEN SanitizeName(resource.id)
                ELSE SanitizeName(DictGet(resource.tags, "Name", <<>>))
    IN  IF DictHas(names, base)
        THEN LET n == DictGet(names, base, 0) + 1
             IN  [name |-> base \o <<"_">> \o IntToStr(n), names |-> DictSet(names, base, n)]
        ELSE [name |-> base, names |-> DictSet(names, base, 0)]

\* _get_resource_name: the name returned and resource_names afterwards
GetResourceName(names, resource) ==
    LET base == IF DictHas(resource.tags, "Name")
                THEN SanitizeName(DictGet(resource.tags, "Name", <<>>))
                ELSE SanitizeName(resource.id)
    IN  IF DictHas(names, base)
        THEN LET n == DictGet(names, base, 0) + 1
             IN  [name |-> base \o <<"_">> \o IntToStr(n), names |-> DictSet(names, base, n)]
        ELSE [name |-> base, names |-> DictSet(names, base, 0)]

---------------------------------------------------------------------------
(* Snapshot Loader and Region Classifier: TerraformGenerator *)

StartsWith(s, prefix) ==
    Len(s) >= Len(prefix) /\ SubSeq(s, 1, Len(prefix)) = prefix

\* every snapshot resolved to the default region
DetermineRegionDefault(resources) == "us-east-1"

\* _determine_region_from_resources; a missing Placement and an empty
\* AvailabilityZone both read as ''
DetermineRegion(resources) ==
    LET instances == DictGet(resources, "ec2_instances", <<>>)
        az == IF instances # <<>> THEN instances[1].data.az ELSE <<>>
    IN  IF StartsWith(az, <<"u", "s", "-", "e", "a", "s", "t", "-", "1">>) THEN "us-east-1"
        ELSE IF StartsWith(az, <<"u", "s", "-", "e", "a", "s", "t", "-", "2">>) THEN "us-east-2"
        ELSE IF StartsWith(az, <<"u", "s", "-", "w", "e", "s", "t", "-", "2">>) THEN "us-west-2"
        ELSE "us-east-1"

\* every resource tagged with the default region
WithRegionDefault(resource, region) ==
    [type |-> resource.type, id |-> resource.id, data |-> resource.data,
     zone_id |-> resource.zone_id, tags |-> resource.tags, region |-> "us-east-1"]

\* resource['region'] = region
WithRegion(resource, region) ==
    [type |-> resource.type, id |-> resource.id, data |-> resource.data,
     zone_id |-> resource.zone_id, tags |-> resource.tags, region |-> region]

\* d after "if key not in d: d[key] = []" and "d[key].append(x)" for every
\* key of lists and every x of its list, in order
Extended(d, lists) ==
    LET New(entry) == ~DictHas(d, entry.k)
    IN  [i \in DOMAIN d |-> [k |-> d[i].k, v |-> d[i].v \o DictGet(lists, d[i].k, <<>>)]]
        \o SelectSeq(lists, New)

\* the loop body of _load_all_discovered_resources for one discovery file: ld is
\* [all, regions], the loader's all_resources and self.regions
MergeFile(ld, resources) ==
    LET region == DetermineRegion(resources)
        tagged == [n \in DOMAIN resources |->
                      [k |-> resources[n].k,
                       v |-> [i \in DOMAIN resources[n].v |->
                                 WithRegion(resources[n].v[i], region)]]]
    IN  [all |-> Extended(ld.all, tagged),
         regions |-> DictSet(ld.regions, region,
                             Extended(DictGet(ld.regions, region, <<>>), tagged))]

\* the discovery files the loader reads, given the listing order of the directory
FilesToLoad(dirOrder) == dirOrder

RECURSIVE MergeFiles(_, _, _)
MergeFiles(files, order, n) ==
    IF n = 0 THEN [all |-> <<>>, regions |-> <<>>]
    ELSE MergeFile(MergeFiles(files, order, n - 1), files[order[n]])

\* what _load_all_discovered_resources does when it finds nothing to load:
\* logger.error(message) and return {}
NoSnapshot(message) == [all |-> <<>>, regions |-> <<>>, errors |-> <<message>>]

\* _load_all_discovered_resources, os.listdir returning the files in dirOrder
LoadAllDiscoveredResources(dirExists, files, dirOrder) ==
    IF ~dirExists THEN NoSnapshot("terraform_output directory not found")
    ELSE IF dirOrder = <<>> THEN NoSnapshot("No discovery results found")
    ELSE LET order == FilesToLoad(dirOrder)
             ld == MergeFiles(files, order, Len(order))
         IN  [all |-> ld.all, regions |-> ld.regions, errors |-> <<>>]

\* the orders os.listdir can return the files of a directory in
ListingOrders(names) ==
    {order \in [1..Cardinality(names) -> names] : Range(order) = names}

---------------------------------------------------------------------------
(* Config Emitter: TerraformGenerator *)

\* region.replace('-', '_') of the regions _determine_region_from_resources returns
RegionAlias(region) ==
    CASE region = "us-east-1" -> "us_east_1"
      [] region = "us-east-2" -> "us_east_2"
      [] region = "us-west-2" -> "us_west_2"

\* f"{region_alias}.tf"
RegionFile(region) ==
    CASE region = "us-east-1" -> "us_east_1.tf"
      [] region = "us-east-2" -> "us_east_2.tf"
      [] region = "us-west-2" -> "us_west_2.tf"

\* resource_type.replace('aws_', '') of a type that starts with 'aws_'
TypePrefix(type) ==
    CASE type = "aws_instance"         -> "instance"
      [] type = "aws_vpc"              -> "vpc"
      [] type = "aws_subnet"           -> "subnet"
      [] type = "aws_security_group"   -> "security_group"
      [] type = "aws_route_table"      -> "route_table"
      [] type = "aws_internet_gateway" -> "internet_gateway"
      [] type = "aws_nat_gateway"      -> "nat_gateway"
      [] type = "aws_eip"              -> "eip"
      [] type = "aws_ebs_volume"       -> "ebs_volume"
      [] type = "aws_ebs_snapshot"     -> "ebs_snapshot"
      [] type = "aws_route53_zone"     -> "route53_zone"
      [] type = "aws_route53_record"   -> "route53_record"
      [] type = "aws_s3_bucket"        -> "s3_bucket"
      [] type = "aws_iam_role"         -> "iam_role"
      [] type = "aws_iam_policy"       -> "iam_policy"
      [] OTHER                         -> type

\* _generate_safe_resource_name
GenerateSafeResourceName(type, id) ==
    <<TypePrefix(type), "_">> \o ReplaceChars(id, {"-", "."}, "_")

\* the types the if/elif chains of the first definitions of _generate_import_block
\* and _generate_resource_block have a branch for
RuledTypes == {"aws_instance", "aws_vpc", "aws_subnet", "aws_security_group",
               "aws_route53_zone", "aws_route53_record", "aws_s3_bucket",
               "aws_iam_role", "aws_iam_policy", "aws_ebs_volume",
               "aws_internet_gateway", "aws_nat_gateway", "aws_eip",
               "aws_route_table"}

\* _generate_import_block as the class binds it (the second definition replaces
\* the first): no block without a type or an id, else a block for any type
GenerateImportBlock(resource) ==
    IF resource.type = "" \/ resource.id = <<>> THEN <<>>
    ELSE <<[type |-> resource.type,
            name |-> GenerateSafeResourceName(resource.type, resource.id),
            id |-> resource.id]>>

\* a declaration named by the type prefix and the id as the provider gives it
GenerateResourceBlockRawId(resource, provider_alias) ==
    IF resource.type = "" \/ resource.id = <<>> THEN <<>>
    ELSE <<[type |-> resource.type,
            name |-> <<TypePrefix(resource.type), "_">> \o resource.id,
            provider |-> provider_alias]>>

\* _generate_resource_block as the class binds it (the second definition)
GenerateResourceBlock(resource, provider_alias) ==
    IF resource.type = "" \/ resource.id = <<>> THEN <<>>
    ELSE <<[type |-> resource.type,
            name |-> GenerateSafeResourceName(resource.type, resource.id),
            provider |-> provider_alias]>>

\* an id that json.load gives as an int (a JSON number in a snapshot file): it is
\* written as one token that no string of characters equals
NumberId == <<"number">>

\* whether _generate_import_block and _generate_resource_block return for the
\* resource: past the "not resource_type or not resource_id" return,
\* resource_id.replace raises AttributeError on an id that is not a str
Renders(resource) ==
    resource.type = "" \/ resource.id = <<>> \/ resource.id # NumberId

RendersAll(list) == \A i \in DOMAIN list : Renders(list[i])

\* the files after a generate method whose rendering raised: content is built
\* before open(name, 'w') is reached, so the file is left as it was
FailedWriteTruncates(files, name) ==
    WriteFile(files, name,
              [text |-> "", imports |-> <<>>, decls |-> <<>>, outputs |-> <<>>])
FailedWrite(files, name) == files

\* _generate_import_blocks
GenerateImportBlocks(resources) ==
    LET list == DictValues(resources)
    IN  Flatten([i \in DOMAIN list |-> GenerateImportBlock(list[i])])

\* _generate_resource_blocks
GenerateResourceBlocks(resources) ==
    LET list == DictValues(resources)
    IN  Flatten([i \in DOMAIN list |-> GenerateResourceBlock(list[i], "us_east_1")])

\* the output blocks of the first n resources of vpcs, and resource_names afterwards
RECURSIVE VpcOutputs(_, _, _)
VpcOutputs(names, vpcs, n) ==
    IF n = 0 THEN [outputs |-> <<>>, names |-> names]
    ELSE LET before == VpcOutputs(names, vpcs, n - 1)
             got == GetResourceName(before.names, vpcs[n])
         IN  [outputs |-> before.outputs \o <<[name |-> got.name, attr |-> "id"],
                                              [name |-> got.name, attr |-> "cidr_block"]>>,
              names |-> got.names]

\* _generate_output_blocks: only the entry whose key is 'aws_vpc' is rendered
GenerateOutputBlocks(names, resources) ==
    LET vpcs == DictGet(resources, "aws_vpc", <<>>)
    IN  VpcOutputs(names, vpcs, Len(vpcs))

\* the content of a file: the template it is rendered from and the import
\* directives, declaration blocks and output blocks placed in it
FileOf(text, imports, decls, outputs) ==
    [text |-> text, imports |-> imports, decls |-> decls, outputs |-> outputs]

\* the content _generate_region_file renders for one region
RegionFileContent(region, resources) ==
    LET all == DictValues(resources)
        Mine(resource) == resource.region = region
        list == SelectSeq(all, Mine)
    IN  FileOf("region",
               Flatten([i \in DOMAIN list |-> GenerateImportBlock(list[i])]),
               Flatten([i \in DOMAIN list |->
                           GenerateResourceBlock(list[i], RegionAlias(region))]),
               <<>>)

\* whether _generate_region_file renders the region's file
RegionRenders(region, resources) ==
    LET all == DictValues(resources)
        Mine(resource) == resource.region = region
    IN  RendersAll(SelectSeq(all, Mine))

\* the first region of self.regions whose file does not render (Len + 1: none)
FirstFailingRegion(regs) ==
    LET failing == {n \in DOMAIN regs : ~RegionRenders(regs[n].k, regs[n].v)}
    IN  IF failing = {} THEN Len(regs) + 1
        ELSE CHOOSE n \in failing : \A m \in failing : n <= m

\* generate_region_configurations: the files after the first n regions
RECURSIVE RegionFilesWritten(_, _, _)
RegionFilesWritten(files, regs, n) ==
    IF n = 0 THEN files
    ELSE WriteFile(RegionFilesWritten(files, regs, n - 1), RegionFile(regs[n].k),
                   RegionFileContent(regs[n].k, regs[n].v))

---------------------------------------------------------------------------
(* Provider accounts the runs are checked on *)

I1 == <<"i", "-", "1">>
I2 == <<"i", "-", "2">>
Web == <<"w", "e", "b">>
UsEast1a == <<"u", "s", "-", "e", "a", "s", "t", "-", "1", "a">>
UsWest2a == <<"u", "s", "-", "w", "e", "s", "t", "-", "2", "a">>
HostedZone == <<"/", "h", "o", "s", "t", "e", "d", "z", "o", "n", "e", "/">>
Zone1 == HostedZone \o <<"Z", "1">>
Zone2 == HostedZone \o <<"Z", "2">>
Www == <<"w", ".", "e", "x", ".">>
Apex == <<"e", "x", ".">>

InstanceStates == {"pending", "running", "shutting-down", "terminated", "stopping",
                   "stopped"}
NatGatewayStates == {"pending", "failed", "available", "deleting", "deleted"}
VolumeStates == {"creating", "available", "in-use", "deleting", "deleted", "error"}
SnapshotStates == {"pending", "completed", "error", "deleting", "deleted"}

\* states a listing of the kind can show
StatesOf(kind) ==
    CASE kind = "ec2_instances" -> InstanceStates
      [] kind = "nat_gateways"  -> NatGatewayStates
      [] kind = "volumes"       -> VolumeStates
      [] kind = "snapshots"     -> SnapshotStates

FilteredKinds == {"ec2_instances", "nat_gateways", "volumes", "snapshots"}
ListedKinds == Kinds \ {"route53_records"}

\* one item of each kind, one zone with an A record and its NS and SOA records
BaseListing ==
    [k \in ListedKinds |->
        CASE k = "ec2_instances" ->
                <<Item(I1, "running", <<Tag("Name", Web)>>, UsEast1a)>>
          [] k = "vpcs"              -> <<Item(<<"v", "p", "c", "-", "1">>, "available", <<>>, <<>>)>>
          [] k = "subnets"           -> <<Item(<<"s", "n", "-", "1">>, "available", <<>>, <<>>)>>
          [] k = "security_groups"   -> <<Item(<<"s", "g", "-", "1">>, "", <<>>, <<>>)>>
          [] k = "route_tables"      -> <<Item(<<"r", "t", "b", "-", "1">>, "", <<>>, <<>>)>>
          [] k = "internet_gateways" -> <<Item(<<"i", "g", "w", "-", "1">>, "", <<>>, <<>>)>>
          [] k = "nat_gateways"      -> <<Item(<<"n", "a", "t", "-", "1">>, "available", <<>>, <<>>)>>
          [] k = "elastic_ips"       -> <<Address(<<"e", "i", "p", "-", "1">>, <<"1", ".", "2">>)>>
          [] k = "volumes"           -> <<Item(<<"v", "o", "l", "-", "1">>, "in-use", <<>>, <<>>)>>
          [] k = "snapshots"         -> <<Item(<<"s", "n", "a", "p", "-", "1">>, "completed", <<>>, <<>>)>>
          [] k = "route53_zones"     -> <<Item(Zone1, "", <<>>, <<>>)>>
          [] k = "s3_buckets"        -> <<Item(<<"b", "k", "t">>, "", <<>>, <<>>)>>
          [] k = "iam_roles"         -> <<Item(<<"r", "o", "l", "e">>, "", <<>>, <<>>)>>
          [] k = "iam_policies"      -> <<Item(<<"p", "o", "l">>, "", <<>>, <<>>)>>]

BaseRecords ==
    [z \in {Zone1, Zone2} |->
        IF z = Zone1
        THEN <<RecordSet(Www, "A"), RecordSet(Apex, "NS"), RecordSet(Apex, "SOA")>>
        ELSE <<RecordSet(Apex, "NS"), RecordSet(Www, "CNAME")>>]

BaseAccount == [listing |-> BaseListing, records |-> BaseRecords]

WithListing(kind, listing) ==
    [BaseAccount EXCEPT !.listing[kind] = listing]

\* a listing of two items of the kind, the first in state s
TwoItems(kind, s) ==
    LET one == BaseListing[kind][1]
    IN  <<[one EXCEPT !.state = s], [one EXCEPT !.id = <<"x", "-", "2">>]>>

\* every state of every state-filtered kind, in a listing of two items
StateAccounts ==
    {WithListing(k, TwoItems(k, s)) : <<k, s>> \in
        UNION {{<<kind, st>> : st \in StatesOf(kind)} : kind \in FilteredKinds}}

\* the same instance listed twice; a terminated and a running instance tagged
\* Name=web; two running instances tagged Name=web
InstanceAccounts ==
    {WithListing("ec2_instances", l) : l \in {
        <<Item(I1, "running", <<>>, UsEast1a), Item(I1, "running", <<>>, UsEast1a)>>,
        <<Item(I1, "terminated", <<Tag("Name", Web)>>, UsEast1a),
          Item(I2, "running", <<Tag("Name", Web)>>, UsEast1a)>>,
        <<Item(I1, "running", <<Tag("Name", Web)>>, UsWest2a),
          Item(I2, "running", <<Tag("Name", Web)>>, UsWest2a)>>,
        <<>>}}

\* no zone; two zones; a zone with two weighted record sets of one name and type
DnsAccounts ==
    {WithListing("route53_zones", <<>>),
     WithListing("route53_zones", <<Item(Zone1, "", <<>>, <<>>), Item(Zone2, "", <<>>, <<>>)>>),
     [BaseAccount EXCEPT !.records[Zone1] = <<RecordSet(Www, "A"), RecordSet(Www, "A")>>],
     WithListing("elastic_ips", <<Address(<<>>, <<"1", ".", "2">>)>>)}

DiscAccounts == {BaseAccount} \cup StateAccounts \cup InstanceAccounts \cup DnsAccounts

---------------------------------------------------------------------------
(* The generate process is not started *)

\* no probe method is in progress and none has been called
NoFrames == [k \in Kinds |-> [pc |-> "idle", local |-> <<>>, calls |-> 0]]

\* _sanitize_name has not been called
NoSanitize == [input |-> <<>>, outputs |-> <<>>]

\* no second generator has been constructed
NoReplay == [constructed |-> FALSE, resource_names |-> <<>>, returned |-> <<>>]

GenIdle ==
    /\ gstate = "idle"
    /\ all_resources = <<>>
    /\ regions = <<>>
    /\ resource_names = <<>>
    /\ bundle = <<>>
    /\ exitCode = -1
    /\ logged = <<>>

DiscoveryIdle ==
    /\ dstate = "idle"
    /\ dpc = 0
    /\ discovered_resources = <<>>
    /\ outcome = [k \in Kinds |-> "pending"]
    /\ invoked = <<>>
    /\ listedZones = <<>>
    /\ writes = 0

---------------------------------------------------------------------------
(* One discovery run on each account *)

InitDiscovery ==
    /\ clock = 0
    /\ account \in DiscAccounts
    /\ outDirExists \in BOOLEAN
    /\ snapshotFiles = <<>>
    /\ DiscoveryIdle
    /\ errBudget = MaxErrors
    /\ runsLeft = 1
    /\ GenIdle
    /\ returned = <<>>
    /\ replay = NoReplay
    /\ san = NoSanitize
    /\ frames = NoFrames

NextDiscovery ==
    \/ StartDiscovery
    \/ discover_ec2_instances
    \/ discover_vpcs
    \/ discover_subnets
    \/ discover_security_groups
    \/ discover_route_tables
    \/ discover_internet_gateways
    \/ discover_nat_gateways
    \/ discover_elastic_ips
    \/ discover_volumes
    \/ discover_snapshots
    \/ discover_route53_zones
    \/ discover_route53_records
    \/ discover_s3_buckets
    \/ discover_iam_roles
    \/ discover_iam_policies
    \/ save_discovery_results
    \/ Tick

SpecDiscovery == InitDiscovery /\ [][NextDiscovery]_vars

---------------------------------------------------------------------------
(* Generation: main() of terraform_generator.py, one action per call *)

NoGenerationChange == UNCHANGED <<clock, account, outDirExists, snapshotFiles, dvars,
                                  errBudget, runsLeft, nvars>>

\* TerraformGenerator(): ensure_output_directory creates the directories of the
\* bundle, then the snapshots are loaded
TerraformGenerator ==
    /\ gstate = "idle"
    /\ dstate # "running"
    /\ \E dirOrder \in ListingOrders(DOMAIN snapshotFiles) :
        LET ld == LoadAllDiscoveredResources(outDirExists, snapshotFiles, dirOrder)
        IN  /\ resource_names' = <<>>
            /\ regions' = ld.regions
            /\ all_resources' = ld.all
            /\ logged' = ld.errors
    /\ gstate' = "constructed"
    /\ UNCHANGED <<bundle, exitCode>>
    /\ NoGenerationChange

\* an exception leaves generate_all_configurations and main(): the process ends
\* with a traceback and exit status 1
GenerationRaises ==
    /\ gstate' = "failed"
    /\ exitCode' = 1

generate_main_tf ==
    /\ gstate = "constructed"
    /\ IF RendersAll(DictValues(all_resources))
       THEN /\ gstate' = "main"
            /\ bundle' = WriteFile(bundle, "main.tf",
                                   FileOf("main", GenerateImportBlocks(all_resources),
                                          GenerateResourceBlocks(all_resources), <<>>))
            /\ UNCHANGED exitCode
       ELSE /\ GenerationRaises
            /\ bundle' = FailedWrite(bundle, "main.tf")
    /\ UNCHANGED <<all_resources, regions, resource_names, logged>>
    /\ NoGenerationChange

generate_variables_tf ==
    /\ gstate = "main"
    /\ gstate' = "variables"
    /\ bundle' = WriteFile(bundle, "variables.tf", FileOf("variables", <<>>, <<>>, <<>>))
    /\ UNCHANGED <<all_resources, regions, resource_names, exitCode, logged>>
    /\ NoGenerationChange

generate_outputs_tf ==
    /\ gstate = "variables"
    /\ gstate' = "outputs"
    /\ LET out == GenerateOutputBlocks(resource_names, all_resources)
       IN  /\ bundle' = WriteFile(bundle, "outputs.tf",
                                  FileOf("outputs", <<>>, <<>>, out.outputs))
           /\ resource_names' = out.names
    /\ UNCHANGED <<all_resources, regions, exitCode, logged>>
    /\ NoGenerationChange

\* the second definition of generate_providers_tf (multi-region providers)
generate_providers_tf ==
    /\ gstate = "outputs"
    /\ gstate' = "providers"
    /\ bundle' = WriteFile(bundle, "providers.tf", FileOf("providers", <<>>, <<>>, <<>>))
    /\ UNCHANGED <<all_resources, regions, resource_names, exitCode, logged>>
    /\ NoGenerationChange

\* the region files are written one after the other, up to the first one whose
\* rendering raises
generate_region_configurations ==
    /\ gstate = "providers"
    /\ LET n == FirstFailingRegion(regions)
       IN  IF n > Len(regions)
           THEN /\ gstate' = "regions"
                /\ bundle' = RegionFilesWritten(bundle, regions, Len(regions))
                /\ UNCHANGED exitCode
           ELSE /\ GenerationRaises
                /\ bundle' = FailedWrite(RegionFilesWritten(bundle, regions, n - 1),
                                         RegionFile(regions[n].k))
    /\ UNCHANGED <<all_resources, regions, resource_names, logged>>
    /\ NoGenerationChange

\* generate_ec2_resources .. generate_iam_resources do nothing; generate_modules
generate_modules ==
    /\ gstate = "regions"
    /\ gstate' = "modules"
    /\ bundle' = WriteFile(bundle, "modules/example.tf",
                           FileOf("module", <<>>, <<>>, <<>>))
    /\ UNCHANGED <<all_resources, regions, resource_names, exitCode, logged>>
    /\ NoGenerationChange

\* main() prints the summary and returns
GenerateExit ==
    /\ gstate = "modules"
    /\ gstate' = "done"
    /\ exitCode' = 0
    /\ UNCHANGED <<all_resources, regions, resource_names, bundle, logged>>
    /\ NoGenerationChange

---------------------------------------------------------------------------
(* The pipeline: discovery runs whose provider calls all succeed, then a    *)
(* generation run                                                          *)

PipeAccounts ==
    {BaseAccount} \cup
    {WithListing("ec2_instances", l) : l \in {
        <<Item(I1, "terminated", <<Tag("Name", Web)>>, UsEast1a),
          Item(I2, "running", <<Tag("Name", Web)>>, UsEast1a)>>,
        <<Item(I1, "running", <<Tag("Name", Web)>>, UsWest2a),
          Item(I2, "running", <<Tag("Name", Web)>>, UsWest2a)>>}}
    \cup {WithListing("s3_buckets", <<Item(<<"b", "-", "1">>, "", <<>>, <<>>),
                                      Item(<<"b", ".", "1">>, "", <<>>, <<>>)>>)}

\* the account's resources change between two runs
AccountChanges ==
    /\ dstate \in {"done", "failed"}
    /\ gstate = "idle"
    /\ runsLeft > 0
    /\ account' \in PipeAccounts \ {account}
    /\ UNCHANGED <<clock, outDirExists, snapshotFiles, dvars, errBudget, runsLeft,
                   gvars, nvars>>

Init ==
    /\ clock = 0
    /\ account \in PipeAccounts
    /\ outDirExists \in BOOLEAN
    /\ snapshotFiles = <<>>
    /\ DiscoveryIdle
    /\ errBudget = 0
    /\ runsLeft = MaxRuns
    /\ GenIdle
    /\ returned = <<>>
    /\ replay = NoReplay
    /\ san = NoSanitize
    /\ frames = NoFrames

Next ==
    \/ StartDiscovery
    \/ discover_ec2_instances
    \/ discover_vpcs
    \/ discover_subnets
    \/ discover_security_groups
    \/ discover_route_tables
    \/ discover_internet_gateways
    \/ discover_nat_gateways
    \/ discover_elastic_ips
    \/ discover_volumes
    \/ discover_snapshots
    \/ discover_route53_zones
    \/ discover_route53_records
    \/ discover_s3_buckets
    \/ discover_iam_roles
    \/ discover_iam_policies
    \/ save_discovery_results
    \/ Tick
    \/ AccountChanges
    \/ TerraformGenerator
    \/ generate_main_tf
    \/ generate_variables_tf
    \/ generate_outputs_tf
    \/ generate_providers_tf
    \/ generate_region_configurations
    \/ generate_modules
    \/ GenerateExit

Spec == Init /\ [][Next]_vars

---------------------------------------------------------------------------
(* Generation runs into one output directory, over the snapshot files found *)
(* in terraform_output at each run                                          *)

MaxGenerations == 2

\* the result map of discover_all_resources after its first n probes, every
\* provider call succeeding
RECURSIVE DiscoveredBy(_, _)
DiscoveredBy(acct, n) ==
    IF n = 0 THEN <<>>
    ELSE LET before == DiscoveredBy(acct, n - 1)
             kind == ProbeOrder[n]
             zones == ZonesToList(before)
         IN  DictSet(before, kind,
                     IF kind = "route53_records"
                     THEN RecordsResult(zones, acct.records, Len(zones))
                     ELSE ProbeResult(kind, acct.listing[kind]))

\* the snapshot of an account whose instance is in us-east-1a
EastSnapshot == DiscoveredBy(BaseAccount, NumProbes)

\* the snapshot of an account whose instances are in us-west-2a
WestSnapshot ==
    DiscoveredBy(WithListing("ec2_instances",
                             <<Item(I1, "running", <<Tag("Name", Web)>>, UsWest2a),
                               Item(I2, "running", <<Tag("Name", Web)>>, UsWest2a)>>),
                 NumProbes)

\* a file discovered_resources_*.json that no discovery run wrote: json.load
\* accepts it, and its VPC has a number where the id is expected
ForeignSnapshot ==
    <<[k |-> "vpcs",
       v |-> <<Resource("vpcs", Item(NumberId, "available", <<>>, <<>>))>>]>>

\* the files terraform_output can hold when a generate process starts
SnapshotDirs ==
    LET content == <<EastSnapshot, WestSnapshot, ForeignSnapshot>>
    IN  {[n \in names |-> content[n]] : names \in SUBSET DOMAIN content}

\* a generate process has ended and the next one is started; files may have
\* been added to terraform_output or removed from it in between
RestartGeneration ==
    /\ gstate \in {"done", "failed"}
    /\ runsLeft > 0
    /\ runsLeft' = runsLeft - 1
    /\ snapshotFiles' \in SnapshotDirs
    /\ gstate' = "idle"
    /\ UNCHANGED <<clock, account, outDirExists, dvars, errBudget, all_resources,
                   regions, resource_names, bundle, exitCode, logged, nvars>>

InitBundle ==
    /\ clock = 0
    /\ account = BaseAccount
    /\ outDirExists = TRUE
    /\ snapshotFiles \in SnapshotDirs
    /\ DiscoveryIdle
    /\ errBudget = 0
    /\ runsLeft = MaxGenerations - 1
    /\ GenIdle
    /\ returned = <<>>
    /\ replay = NoReplay
    /\ san = NoSanitize
    /\ frames = NoFrames

NextBundle ==
    \/ TerraformGenerator
    \/ generate_main_tf
    \/ generate_variables_tf
    \/ generate_outputs_tf
    \/ generate_providers_tf
    \/ generate_region_configurations
    \/ generate_modules
    \/ GenerateExit
    \/ RestartGeneration

SpecBundle == InitBundle /\ [][NextBundle]_vars

---------------------------------------------------------------------------
(* One generation run over one snapshot file, for the placement zones an    *)
(* instance can be listed with                                              *)

UsEast1b == <<"u", "s", "-", "e", "a", "s", "t", "-", "1", "b">>
UsEast2a == <<"u", "s", "-", "e", "a", "s", "t", "-", "2", "a">>
UsWest1a == <<"u", "s", "-", "w", "e", "s", "t", "-", "1", "a">>
EuWest1a == <<"e", "u", "-", "w", "e", "s", "t", "-", "1", "a">>

\* <<>>: the instance has no Placement, or an empty AvailabilityZone
PlacementZones == {<<>>, UsEast1a, UsEast1b, UsEast2a, UsWest2a, UsWest1a, EuWest1a}

\* the instance listings: none, one instance, two instances
ZoneListings ==
    {<<>>}
    \cup {<<Item(I1, "running", <<>>, z)>> : z \in PlacementZones}
    \cup {<<Item(I1, "running", <<>>, z1), Item(I2, "running", <<>>, z2)>> :
             z1 \in PlacementZones, z2 \in PlacementZones}

\* the snapshots discovery writes for these listings
ZoneSnapshots ==
    {DiscoveredBy(WithListing("ec2_instances", l), NumProbes) : l \in ZoneListings}

InitRegion ==
    /\ clock = 0
    /\ account = BaseAccount
    /\ outDirExists = TRUE
    /\ snapshotFiles \in {[t \in {0} |-> snapshot] : snapshot \in ZoneSnapshots}
    /\ DiscoveryIdle
    /\ errBudget = 0
    /\ runsLeft = 0
    /\ GenIdle
    /\ returned = <<>>
    /\ replay = NoReplay
    /\ san = NoSanitize
    /\ frames = NoFrames

NextRegion ==
    \/ TerraformGenerator
    \/ generate_main_tf
    \/ generate_variables_tf
    \/ generate_outputs_tf
    \/ generate_providers_tf
    \/ generate_region_configurations
    \/ generate_modules
    \/ GenerateExit

SpecRegion == InitRegion /\ [][NextRegion]_vars

---------------------------------------------------------------------------
(* The probe methods of one coordinator called by concurrent callers: each  *)
(* method runs in two steps, its listing and its assignment                 *)

\* the probes that are called concurrently
ConcurrentKinds == {"ec2_instances", "vpcs", "route53_zones", "route53_records"}

ProbeAccounts ==
    {BaseAccount,
     WithListing("vpcs", <<>>),
     WithListing("route53_zones", <<Item(Zone1, "", <<>>, <<>>), Item(Zone2, "", <<>>, <<>>)>>),
     WithListing("ec2_instances",
                 <<Item(I1, "terminated", <<Tag("Name", Web)>>, UsEast1a),
                   Item(I2, "running", <<Tag("Name", Web)>>, UsEast1a)>>)}

\* an assignment that adds to the entry the kind already has
AssignEntryExtends(found, kind, list) ==
    DictSet(found, kind, DictGet(found, kind, <<>>) \o list)

\* self.discovered_resources[kind] = list
AssignEntry(found, kind, list) == DictSet(found, kind, list)

\* a discover_<kind> method up to its assignment: the listing call and the loop
\* that appends to the method's local list; the DNS-record probe reads the zones
\* of the result map, so it is called once the zone probe has assigned them
ProbeLists ==
    /\ \E kind \in ConcurrentKinds :
        /\ frames[kind].pc = "idle"
        /\ frames[kind].calls < MaxProbeCalls
        /\ kind = "route53_records" => DictHas(discovered_resources, "route53_zones")
        /\ LET zones == ZonesToList(discovered_resources)
               list == IF kind = "route53_records"
                       THEN RecordsResult(zones, account.records, Len(zones))
                       ELSE ProbeResult(kind, account.listing[kind])
           IN  frames' = [frames EXCEPT ![kind] = [pc |-> "listed", local |-> list,
                                                   calls |-> frames[kind].calls + 1]]
    /\ UNCHANGED <<clock, account, outDirExists, snapshotFiles, dvars, errBudget,
                   runsLeft, gvars, returned, replay, san>>

\* the assignment that ends the try block of a discover_<kind> method
ProbeAssigns ==
    /\ \E kind \in ConcurrentKinds :
        /\ frames[kind].pc = "listed"
        /\ discovered_resources' =
              AssignEntry(discovered_resources, kind, frames[kind].local)
        /\ frames' = [frames EXCEPT ![kind] = [pc |-> "idle", local |-> <<>>,
                                                calls |-> frames[kind].calls]]
    /\ UNCHANGED <<clock, account, outDirExists, snapshotFiles, dstate, dpc, outcome,
                   invoked, listedZones, writes, errBudget, runsLeft, gvars, returned,
                   replay, san>>

InitProbes ==
    /\ clock = 0
    /\ account \in ProbeAccounts
    /\ outDirExists = TRUE
    /\ snapshotFiles = <<>>
    /\ DiscoveryIdle
    /\ errBudget = 0
    /\ runsLeft = 0
    /\ GenIdle
    /\ returned = <<>>
    /\ replay = NoReplay
    /\ san = NoSanitize
    /\ frames = NoFrames

NextProbes == ProbeLists \/ ProbeAssigns

SpecProbes == InitProbes /\ [][NextProbes]_vars

---------------------------------------------------------------------------
(* The Name Resolver of one generator, called on distinct resources *)

I3 == <<"i", "-", "3">>

\* Name tag values; <<>> stands for a resource without a Name tag
NameTagValues == {<<"w">>, <<"W">>, <<"w", "_", "1">>, <<"w", ".", "1">>, <<"1">>}

NameResources ==
    {[type |-> "aws_instance", id |-> id, data |-> Item(id, "running", tags, <<>>),
      zone_id |-> <<>>, tags |-> TagDict(tags)] :
        id \in {I1, I2, I3},
        tags \in {<<>>} \cup {<<Tag("Name", v)>> : v \in NameTagValues}}

\* one call of _get_resource_name, on a resource not resolved before
get_resource_name ==
    /\ Len(returned) < MaxResolved
    /\ \E r \in NameResources :
        /\ \A i \in DOMAIN returned : returned[i].resource.id # r.id
        /\ LET got == GetResourceName(resource_names, r)
           IN  /\ resource_names' = got.names
               /\ returned' = Append(returned, [resource |-> r, name |-> got.name])
    /\ UNCHANGED <<clock, account, outDirExists, snapshotFiles, dvars, errBudget,
                   runsLeft, gstate, all_resources, regions, bundle, exitCode, logged,
                   replay, san, frames>>

InitNames ==
    /\ clock = 0
    /\ account = BaseAccount
    /\ outDirExists = TRUE
    /\ snapshotFiles = <<>>
    /\ DiscoveryIdle
    /\ errBudget = 0
    /\ runsLeft = 0
    /\ GenIdle
    /\ returned = <<>>
    /\ replay = NoReplay
    /\ san = NoSanitize
    /\ frames = NoFrames

NextNames == get_resource_name

SpecNames == InitNames /\ [][NextNames]_vars

---------------------------------------------------------------------------
(* Two generators resolving the same ordered resource list *)

\* self.resource_names = {} in __init__: the map of a new generator, given the
\* map of a generator that exists already
NewResourceNamesShared(existing) == existing
NewResourceNames(existing) == <<>>

\* TerraformGenerator(): a second generator is constructed
SecondGenerator ==
    /\ ~replay.constructed
    /\ replay' = [constructed |-> TRUE,
                  resource_names |-> NewResourceNames(resource_names),
                  returned |-> <<>>]
    /\ UNCHANGED <<clock, account, outDirExists, snapshotFiles, dvars, errBudget,
                   runsLeft, gvars, returned, san, frames>>

\* the second generator's _get_resource_name, on the next resource of the list
\* the first generator has resolved
replay_resource_name ==
    /\ replay.constructed
    /\ Len(replay.returned) < Len(returned)
    /\ LET r == returned[Len(replay.returned) + 1].resource
           got == GetResourceName(replay.resource_names, r)
       IN  replay' = [constructed |-> TRUE,
                      resource_names |-> got.names,
                      returned |-> Append(replay.returned,
                                          [resource |-> r, name |-> got.name])]
    /\ UNCHANGED <<clock, account, outDirExists, snapshotFiles, dvars, errBudget,
                   runsLeft, gvars, returned, san, frames>>

NextReplay ==
    \/ get_resource_name
    \/ SecondGenerator
    \/ replay_resource_name

SpecReplay == InitNames /\ [][NextReplay]_vars

---------------------------------------------------------------------------
(* _sanitize_name applied to a string, and again to its own result *)

\* characters of the input strings: letters of both cases, a digit, the two
\* punctuation characters the pattern keeps, and characters it replaces
SanChars == {"a", "W", "1", "_", "-", ".", " ", "/"}

RECURSIVE StringsUpTo(_)
StringsUpTo(n) ==
    IF n = 0 THEN {<<>>}
    ELSE LET shorter == StringsUpTo(n - 1)
         IN  shorter \cup {Append(str, c) : str \in shorter, c \in SanChars}

\* one call of _sanitize_name: on the input first, then on the last result
sanitize_name ==
    /\ Len(san.outputs) < MaxCalls
    /\ LET arg == IF san.outputs = <<>> THEN san.input
                  ELSE san.outputs[Len(san.outputs)]
       IN  san' = [san EXCEPT !.outputs = Append(san.outputs, SanitizeName(arg))]
    /\ UNCHANGED <<clock, account, outDirExists, snapshotFiles, dvars, errBudget,
                   runsLeft, gvars, returned, replay, frames>>

InitSanitize ==
    /\ clock = 0
    /\ account = BaseAccount
    /\ outDirExists = TRUE
    /\ snapshotFiles = <<>>
    /\ DiscoveryIdle
    /\ errBudget = 0
    /\ runsLeft = 0
    /\ GenIdle
    /\ returned = <<>>
    /\ replay = NoReplay
    /\ san \in {[input |-> str, outputs |-> <<>>] : str \in StringsUpTo(MaxLen)}
    /\ frames = NoFrames

NextSanitize == sanitize_name

SpecSanitize == InitSanitize /\ [][NextSanitize]_vars

---------------------------------------------------------------------------
(* Properties *)

IsPrefix(s, t) == Len(s) <= Len(t) /\ SubSeq(t, 1, Len(s)) = s

NoOtherError == \A k \in Kinds : outcome[k] # "other_error"
SomeClientError == \E k \in Kinds : outcome[k] = "client_error"

\* what the provider holds for the probe of kind k, given the zones of a snapshot
FoundBy(k, snapshot) ==
    IF k = "route53_records"
    THEN LET zones == DictGet(snapshot, "route53_zones", <<>>)
         IN  RecordsResult(zones, account.records, Len(zones))
    ELSE ProbeResult(k, account.listing[k])

\* C1: in a discovery run in which probes end with a ClientError (and no call
\* ends with another exception), every probe is still invoked, the run fails
\* only when the output directory is missing, and the snapshot it writes holds,
\* for every probe that succeeded, the resources that probe found.
C1_PartialFailureIsolation ==
    (SomeClientError /\ NoOtherError) =>
        /\ outDirExists => dstate # "failed"
        /\ dstate \in {"done", "failed"} => \A k \in Kinds : outcome[k] # "pending"
        /\ dstate = "done" =>
             \A t \in DOMAIN snapshotFiles : \A k \in Kinds :
                outcome[k] = "ok" =>
                    /\ DictHas(snapshotFiles[t], k)
                    /\ DictGet(snapshotFiles[t], k, <<>>) = FoundBy(k, snapshotFiles[t])

C1_Witness ==
    /\ dstate = "done"
    /\ outcome["ec2_instances"] = "client_error"
    /\ outcome["route53_records"] = "client_error"
    /\ \E t \in DOMAIN snapshotFiles :
        /\ ~DictHas(snapshotFiles[t], "ec2_instances")
        /\ DictGet(snapshotFiles[t], "vpcs", <<>>) # <<>>
        /\ DictGet(snapshotFiles[t], "iam_policies", <<>>) # <<>>

NoSnapshotFound == ~outDirExists \/ DOMAIN snapshotFiles = {}

\* C2 as claimed: with no snapshot to load, the generate process logs an
\* error, writes no file of the bundle and ends with a non-zero exit status.
C2_MissingSnapshotFails ==
    (NoSnapshotFound /\ gstate # "idle") =>
        /\ logged # <<>>
        /\ DOMAIN bundle = {}
        /\ gstate = "done" => exitCode # 0

\* C3 as claimed: the names _get_resource_name has returned for distinct
\* resources are pairwise distinct.
C3_NamesPairwiseDistinct ==
    \A i, j \in DOMAIN returned : i # j => returned[i].name # returned[j].name

\* C4 as claimed: no snapshot file holds two entries of one kind with the same id.
C4_SnapshotKeysUnique ==
    \A t \in DOMAIN snapshotFiles : \A n \in DOMAIN snapshotFiles[t] :
        LET list == snapshotFiles[t][n].v
        IN  \A i, j \in DOMAIN list : i # j => list[i].id # list[j].id

\* the entries of list that are the resource (type, id)
Occurrences(list, type, id) == {i \in DOMAIN list : list[i].type = type /\ list[i].id = id}

Generating == gstate \in {"constructed", "main", "variables", "outputs", "providers",
                          "regions", "modules"}

\* C5 as claimed: a resource recorded in an older and in a newer snapshot file
\* of one region is loaded once.
C5_NewestFilePerRegion ==
    Generating =>
        \A t1, t2 \in DOMAIN snapshotFiles :
            (t1 < t2 /\ DetermineRegion(snapshotFiles[t1]) = DetermineRegion(snapshotFiles[t2])) =>
                LET older == DictValues(snapshotFiles[t1])
                    newer == DictValues(snapshotFiles[t2])
                IN  \A i \in DOMAIN older :
                        Occurrences(newer, older[i].type, older[i].id) # {} =>
                            Cardinality(Occurrences(DictValues(all_resources),
                                                    older[i].type, older[i].id)) = 1

\* the import directives for (type, id) in the files of the bundle
ImportsOf(type, id) ==
    UNION {{<<f, i>> : i \in Occurrences(bundle[f].imports, type, id)} : f \in DOMAIN bundle}

\* the declaration blocks of the given type and name in the files of the bundle
DeclarationsOf(type, name) ==
    UNION {{<<f, i>> : i \in {d \in DOMAIN bundle[f].decls :
                                 /\ bundle[f].decls[d].type = type
                                 /\ bundle[f].decls[d].name = name}} : f \in DOMAIN bundle}

OneOfEachKind == \A k \in Kinds : Len(DictGet(all_resources, k, <<>>)) = 1

\* C6 as claimed: from a snapshot with one resource of each kind, the bundle
\* holds, over all its files, one import directive and one declaration block
\* for each resource of a kind with a generation rule.
C6_OneImportOneDeclaration ==
    (gstate \in {"modules", "done"} /\ OneOfEachKind) =>
        LET list == DictValues(all_resources)
        IN  \A i \in DOMAIN list :
                list[i].type \in RuledTypes =>
                    /\ Cardinality(ImportsOf(list[i].type, list[i].id)) = 1
                    /\ Cardinality(DeclarationsOf(list[i].type,
                           GenerateSafeResourceName(list[i].type, list[i].id))) = 1

\* C7 as claimed: a resource of a kind without a generation rule has no import
\* directive and no declaration block in any file of the bundle.
C7_UnsupportedKindNotRendered ==
    gstate \in {"modules", "done"} =>
        LET list == DictValues(all_resources)
        IN  \A i \in DOMAIN list :
                list[i].type \notin RuledTypes =>
                    /\ ImportsOf(list[i].type, list[i].id) = {}
                    /\ DeclarationsOf(list[i].type,
                           GenerateSafeResourceName(list[i].type, list[i].id)) = {}

\* C8 as claimed: no step changes or replaces a snapshot file that exists.
C8_SnapshotsImmutable ==
    [][\A t \in DOMAIN snapshotFiles :
          t \in DOMAIN snapshotFiles' /\ snapshotFiles'[t] = snapshotFiles[t]]_vars

ClaimedProbeOrder ==
    <<"ec2_instances", "vpcs", "subnets", "security_groups", "route_tables",
      "internet_gateways", "nat_gateways", "elastic_ips", "volumes", "snapshots",
      "route53_zones", "route53_records", "s3_buckets", "iam_roles", "iam_policies">>

\* C9: the probes are invoked in the fixed order; the DNS-record probe runs
\* after the DNS-zone probe has returned and lists records only for zones of
\* that probe's result; the snapshot is written at most once, only after all
\* fifteen probes have returned, and exactly once in a run that completes.
C9_ProbeOrdering ==
    /\ IsPrefix(invoked, ClaimedProbeOrder)
    /\ "route53_records" \in Range(invoked) => outcome["route53_zones"] # "pending"
    /\ Range(listedZones) \subseteq
          {z.data.id : z \in Range(DictGet(discovered_resources, "route53_zones", <<>>))}
    /\ listedZones # <<>> => outcome["route53_zones"] = "ok"
    /\ writes <= 1
    /\ writes = 1 => invoked = ClaimedProbeOrder /\ \A k \in Kinds : outcome[k] # "pending"
    /\ dstate = "done" => writes = 1

C9_Witness ==
    /\ dstate = "done"
    /\ writes = 1
    /\ Len(listedZones) = 2
    /\ Len(invoked) = 15

ExcludedStates(k) ==
    IF k = "ec2_instances" THEN {"terminated", "shutting-down"} ELSE {"deleted", "deleting"}

\* C10: no snapshot holds an instance in state terminated or shutting-down, nor a
\* volume, EBS snapshot or NAT gateway in state deleted or deleting, and it holds
\* every item of those kinds that the probe listed in another state.
C10_TerminalStatesFiltered ==
    \A t \in DOMAIN snapshotFiles : \A k \in FilteredKinds :
        LET list == DictGet(snapshotFiles[t], k, <<>>)
            listing == account.listing[k]
        IN  /\ \A i \in DOMAIN list : list[i].data.state \notin ExcludedStates(k)
            /\ DictHas(snapshotFiles[t], k) =>
                  \A j \in DOMAIN listing :
                      listing[j].state \notin ExcludedStates(k) =>
                          \E i \in DOMAIN list : list[i].data = listing[j]

C10_Witness ==
    \E t \in DOMAIN snapshotFiles :
        /\ \E j \in DOMAIN account.listing["ec2_instances"] :
              account.listing["ec2_instances"][j].state = "shutting-down"
        /\ \E j \in DOMAIN account.listing["ec2_instances"] :
              account.listing["ec2_instances"][j].state = "running"
        /\ Len(DictGet(snapshotFiles[t], "ec2_instances", <<>>)) = 1

ZoneOwned == {"NS", "SOA"}

\* C11: in every snapshot with a DNS-record entry, every stored record has a
\* type other than NS and SOA, is a record set the provider returned for a zone
\* of the snapshot and carries that zone's Id as zone_id; and every record set
\* of another type returned for a zone of the snapshot is stored, with the
\* zone's Id as zone_id.
C11_RecordFiltering ==
    \A t \in DOMAIN snapshotFiles :
        DictHas(snapshotFiles[t], "route53_records") =>
            LET recs == DictGet(snapshotFiles[t], "route53_records", <<>>)
                zones == DictGet(snapshotFiles[t], "route53_zones", <<>>)
            IN  /\ \A i \in DOMAIN recs :
                      /\ recs[i].data.rtype \notin ZoneOwned
                      /\ \E z \in DOMAIN zones :
                            /\ recs[i].zone_id = zones[z].data.id
                            /\ recs[i].data \in Range(account.records[zones[z].data.id])
                /\ \A z \in DOMAIN zones :
                      \A rec \in Range(account.records[zones[z].data.id]) :
                          rec.rtype \notin ZoneOwned =>
                              \E i \in DOMAIN recs :
                                  recs[i].data = rec /\ recs[i].zone_id = zones[z].data.id

C11_Witness ==
    \E t \in DOMAIN snapshotFiles :
        /\ Len(DictGet(snapshotFiles[t], "route53_zones", <<>>)) = 2
        /\ Len(DictGet(snapshotFiles[t], "route53_records", <<>>)) = 2
        /\ \E rec \in Range(account.records[Zone2]) : rec.rtype = "NS"
        /\ \E rec \in Range(account.records[Zone1]) : rec.rtype = "SOA"

AllProbesReturned == \A k \in Kinds : outcome[k] \in {"ok", "client_error"}

\* C12 as claimed: a run whose probes have all returned, in a place where the
\* output directory can be created and written, does not fail: after the save
\* step the directory exists and the run has written its snapshot.
C12_FailsOnlyOnSnapshotIO ==
    (AllProbesReturned /\ dpc > SavePoint) =>
        /\ dstate = "done"
        /\ outDirExists
        /\ writes = 1

SomeOtherError == \E k \in Kinds : outcome[k] = "other_error"

\* C13 as claimed: a run in which a probe's listing call ends with an exception
\* other than ClientError (a timeout) goes on as after a ClientError: the run
\* does not fail for it, and once the run is over every probe has been invoked
\* and the snapshot is written.
C13_TimeoutIsolated ==
    (SomeOtherError /\ outDirExists) =>
        /\ dstate # "failed"
        /\ dstate = "done" => (writes = 1 /\ \A k \in Kinds : outcome[k] # "pending")

\* the base name the specification gives a resource
ExpectedBase(resource) ==
    IF DictHas(resource.tags, "Name")
    THEN SanitizeName(DictGet(resource.tags, "Name", <<>>))
    ELSE SanitizeName(resource.id)

\* the resolutions up to the i-th whose resource has the base name of the i-th
SameBaseUpTo(i) ==
    {j \in 1..i : ExpectedBase(returned[j].resource) = ExpectedBase(returned[i].resource)}

\* C14: the first resource resolved with a base name gets the bare base name
\* and the n-th one (n >= 2) gets <base>_<n-1>, so the suffixes of one base
\* name increase by one and none is handed out twice for that base name.
C14_CollisionRule ==
    \A i \in DOMAIN returned :
        LET base == ExpectedBase(returned[i].resource)
            n == Cardinality(SameBaseUpTo(i))
        IN  returned[i].name =
                IF n = 1 THEN base ELSE base \o <<"_">> \o IntToStr(n - 1)

C14_Witness ==
    /\ Len(returned) = 3
    /\ \A i \in DOMAIN returned : ExpectedBase(returned[i].resource) = <<"w">>
    /\ returned[2].name = <<"w", "_", "1">>
    /\ returned[3].name = <<"w", "_", "2">>

\* C15: the name returned for a resource is built on the sanitized value of its
\* Name tag when it has one and on its sanitized provider id otherwise: it is
\* that base name, alone or followed by _ and a number.
C15_NamePreference ==
    \A i \in DOMAIN returned :
        LET r == returned[i].resource
            base == IF DictHas(r.tags, "Name")
                    THEN SanitizeName(DictGet(r.tags, "Name", <<>>))
                    ELSE SanitizeName(r.id)
            name == returned[i].name
        IN  /\ IsPrefix(base, name)
            /\ name # base =>
                  /\ Len(name) >= Len(base) + 2
                  /\ name[Len(base) + 1] = "_"
                  /\ \A k \in (Len(base) + 2)..Len(name) : name[k] \in DigitChars

C15_Witness ==
    /\ \E i \in DOMAIN returned :
          /\ DictHas(returned[i].resource.tags, "Name")
          /\ returned[i].name = <<"r", "e", "s", "o", "u", "r", "c", "e", "_", "1">>
    /\ \E i \in DOMAIN returned :
          /\ ~DictHas(returned[i].resource.tags, "Name")
          /\ returned[i].name = <<"i", "-", "2">>

\* C16: a second, fresh generator resolving the same resources in the same
\* order returns the same name for every resource; and two distinct resources
\* of the list with the same sanitized base name get distinct names.
C16_ResolverDeterministic ==
    /\ \A i \in DOMAIN replay.returned :
          /\ replay.returned[i].resource = returned[i].resource
          /\ replay.returned[i].name = returned[i].name
    /\ \A i, j \in DOMAIN returned :
          (i # j /\ ExpectedBase(returned[i].resource) = ExpectedBase(returned[j].resource))
              => returned[i].name # returned[j].name

C16_Witness ==
    /\ Len(returned) = 3
    /\ Len(replay.returned) = 3
    /\ ExpectedBase(returned[1].resource) = ExpectedBase(returned[3].resource)
    /\ ExpectedBase(returned[1].resource) # ExpectedBase(returned[2].resource)
    /\ replay.returned[3].name = <<"w", "_", "1">>

Letters == LowerLetters \cup UpperLetters

\* C17: _sanitize_name applied to its own result returns that result.
C17_SanitizeIdempotent ==
    Len(san.outputs) >= 2 => san.outputs[2] = san.outputs[1]

C17_Witness ==
    /\ Len(san.outputs) = 2
    /\ san.input = <<"1", ".", "W">>
    /\ san.outputs[2] = ResourcePrefix \o <<"1", "_", "w">>

ImportsOfType(type) ==
    UNION {{bundle[f].imports[i] : i \in {n \in DOMAIN bundle[f].imports :
                                            bundle[f].imports[n].type = type}} :
           f \in DOMAIN bundle}

\* <zone id without its /hostedzone/ prefix>_<record name>_<record type>
CompositeId(record) ==
    LastSegment(record.zone_id) \o <<"_">> \o record.data.id \o <<"_", record.data.rtype>>

\* C19: once main.tf is written, every loaded DNS record has an import
\* directive whose id is the composite of the stripped zone id, the record name
\* and the record type, which is the id the probe stored for it; and no DNS
\* record import directive of the bundle has another id.
C19_RecordImportId ==
    gstate \in {"main", "variables", "outputs", "providers", "regions", "modules", "done"} =>
        LET recs == DictGet(all_resources, "route53_records", <<>>)
        IN  /\ \A i \in DOMAIN recs :
                  /\ recs[i].id = CompositeId(recs[i])
                  /\ \E imp \in ImportsOfType("aws_route53_record") : imp.id = recs[i].id
            /\ \A imp \in ImportsOfType("aws_route53_record") :
                  \E i \in DOMAIN recs : imp.id = CompositeId(recs[i])

C19_Witness ==
    /\ gstate = "done"
    /\ \E imp \in ImportsOfType("aws_route53_record") :
          imp.id = <<"Z", "1", "_", "w", ".", "e", "x", ".", "_", "A">>

\* the regions resolved for the snapshot files
LoadedRegions == {DetermineRegion(snapshotFiles[t]) : t \in DOMAIN snapshotFiles}

\* the files of the bundle written by _generate_region_file
RegionFilesOfBundle == {f \in DOMAIN bundle : bundle[f].text = "region"}

\* the loaded resources tagged with the region
TaggedWith(region) ==
    LET Mine(resource) == resource.region = region
    IN  SelectSeq(DictValues(all_resources), Mine)

\* C20: once the region files are written, (a) the loaded resources are the
\* resources of the snapshot files, each tagged with the region resolved for
\* its file; (b) the region files of the bundle are one <region-alias>.tf per
\* resolved region; (c) the region file of a region holds one import directive
\* and one declaration, bound to provider alias <region-alias>, for each loaded
\* resource tagged with that region, and nothing for a resource tagged with
\* another region.
C20_RegionPartition ==
    gstate \in {"regions", "modules"} =>
        /\ \A t \in DOMAIN snapshotFiles :
              \A e \in Range(DictValues(snapshotFiles[t])) :
                  \E r \in Range(DictValues(all_resources)) :
                      /\ r.type = e.type /\ r.id = e.id /\ r.data = e.data
                      /\ r.region = DetermineRegion(snapshotFiles[t])
        /\ \A r \in Range(DictValues(all_resources)) :
              \E t \in DOMAIN snapshotFiles :
                  /\ r.region = DetermineRegion(snapshotFiles[t])
                  /\ \E e \in Range(DictValues(snapshotFiles[t])) :
                        e.type = r.type /\ e.id = r.id /\ e.data = r.data
        /\ RegionFilesOfBundle = {RegionFile(region) : region \in LoadedRegions}
        /\ \A region \in LoadedRegions :
              LET file == bundle[RegionFile(region)]
                  mine == TaggedWith(region)
              IN  /\ Len(file.imports) = Len(mine)
                  /\ Len(file.decls) = Len(mine)
                  /\ \A i \in DOMAIN mine :
                        /\ file.imports[i].type = mine[i].type
                        /\ file.imports[i].id = mine[i].id
                        /\ file.decls[i].type = mine[i].type
                        /\ file.decls[i].name = file.imports[i].name
                        /\ file.decls[i].provider = RegionAlias(region)

C20_Witness ==
    /\ gstate = "modules"
    /\ RegionFilesOfBundle = {"us_east_1.tf", "us_west_2.tf"}
    /\ bundle["us_east_1.tf"].imports # <<>>
    /\ \E i \in DOMAIN bundle["us_west_2.tf"].decls :
          /\ bundle["us_west_2.tf"].decls[i].type = "aws_instance"
          /\ bundle["us_west_2.tf"].decls[i].provider = "us_west_2"

\* C21 as claimed: once outputs.tf is written it holds, for every VPC of the
\* loaded snapshots, one output block for its id and one for its cidr_block,
\* and no other output block.
C21_OutputsPerVpc ==
    "outputs.tf" \in DOMAIN bundle =>
        LET vpcs == DictGet(all_resources, "vpcs", <<>>)
            outs == bundle["outputs.tf"].outputs
        IN  /\ Len(outs) = 2 * Len(vpcs)
            /\ \A i \in DOMAIN vpcs :
                  /\ outs[2 * i - 1].attr = "id"
                  /\ outs[2 * i].attr = "cidr_block"

\* whether the content of a bundle file renders from what the generator loaded
FileRenders(f) ==
    IF f = "main.tf" THEN RendersAll(DictValues(all_resources))
    ELSE \A n \in DOMAIN regions :
            RegionFile(regions[n].k) = f => RegionRenders(regions[n].k, regions[n].v)

\* C22: a step of a generation run leaves every bundle file whose rendering
\* fails as it was on disk: not created when it was absent, not changed when
\* it was there.
C22_AllOrNothingWrite ==
    [][\A f \in {"main.tf", "outputs.tf", "us_east_1.tf", "us_east_2.tf", "us_west_2.tf"} :
          (Generating /\ ~FileRenders(f)) =>
              /\ (f \in DOMAIN bundle') <=> (f \in DOMAIN bundle)
              /\ f \in DOMAIN bundle => bundle'[f] = bundle[f]]_vars

\* a run ended on a rendering error, and main.tf still holds the import
\* directives an earlier run wrote
C22_Witness ==
    /\ gstate = "failed"
    /\ "main.tf" \in DOMAIN bundle
    /\ bundle["main.tf"].imports # <<>>

\* the regions of the snapshot files a generate process finds
RegionsInDirectory == {DetermineRegion(snapshotFiles[t]) : t \in DOMAIN snapshotFiles}

\* C23 as claimed: when a generation run has ended normally, the region files
\* of the bundle are exactly the files of the regions of the snapshots that
\* run loaded, each with the content that run rendered for its region.
C23_BundleIsProjection ==
    gstate = "done" =>
        /\ RegionFilesOfBundle = {RegionFile(r) : r \in RegionsInDirectory}
        /\ \A n \in DOMAIN regions :
              bundle[RegionFile(regions[n].k)] =
                 RegionFileContent(regions[n].k, regions[n].v)

\* the regions the classifier knows, by the characters of their names
KnownRegions ==
    [r \in {"us-east-1", "us-east-2", "us-west-2"} |->
        CASE r = "us-east-1" -> <<"u", "s", "-", "e", "a", "s", "t", "-", "1">>
          [] r = "us-east-2" -> <<"u", "s", "-", "e", "a", "s", "t", "-", "2">>
          [] r = "us-west-2" -> <<"u", "s", "-", "w", "e", "s", "t", "-", "2">>]

\* the placement zone of the first compute instance of a snapshot (<<>>: none)
PlacementZoneOf(resources) ==
    LET instances == DictGet(resources, "ec2_instances", <<>>)
    IN  IF instances = <<>> THEN <<>> ELSE instances[1].data.az

\* C24: the region the loader resolves for a snapshot file is the known region
\* whose name is a prefix of the placement zone of the snapshot's first compute
\* instance, and us-east-1 when there is no instance, no placement or no known
\* prefix; it is always one of the three known regions.
C24_RegionClassifier ==
    (gstate # "idle" /\ DOMAIN snapshotFiles = {0}) =>
        LET zone == PlacementZoneOf(snapshotFiles[0])
            known == {r \in DOMAIN KnownRegions : IsPrefix(KnownRegions[r], zone)}
        IN  /\ Len(regions) = 1
            /\ regions[1].k \in DOMAIN KnownRegions
            /\ known # {} => regions[1].k \in known
            /\ known = {} => regions[1].k = "us-east-1"

\* a snapshot whose first instance is in us-east-2a and whose second one is in
\* us-west-2a has been loaded
C24_Witness ==
    /\ gstate = "constructed"
    /\ DOMAIN snapshotFiles = {0}
    /\ Len(DictGet(snapshotFiles[0], "ec2_instances", <<>>)) = 2
    /\ PlacementZoneOf(snapshotFiles[0]) = UsEast2a
    /\ DictGet(snapshotFiles[0], "ec2_instances", <<>>)[2].data.az = UsWest2a
    /\ regions[1].k = "us-east-2"

\* the instance declarations of the whole bundle, as (file, position) pairs
InstanceDeclarations ==
    {<<f, i>> \in UNION {{f} \X DOMAIN bundle[f].decls : f \in DOMAIN bundle} :
        bundle[f].decls[i].type = "aws_instance"}

\* C25 as claimed: for the account with a terminated instance i-1 and a running
\* instance i-2, both tagged Name=web, the bundle of a finished generation run
\* that loaded its one snapshot holds exactly one instance declaration, named web.
C25_OneDeclarationNamedWeb ==
    (/\ gstate = "done"
     /\ DictGet(all_resources, "ec2_instances", <<>>) # <<>>
     /\ Cardinality(DOMAIN snapshotFiles) = 1
     /\ \A t \in DOMAIN snapshotFiles :
           LET instances == DictGet(snapshotFiles[t], "ec2_instances", <<>>)
           IN  /\ Len(instances) = 1
               /\ instances[1].id = I2
               /\ Len(account.listing["ec2_instances"]) = 2
               /\ account.listing["ec2_instances"][1].state = "terminated")
    => /\ Cardinality(InstanceDeclarations) = 1
       /\ \A d \in InstanceDeclarations : bundle[d[1]].decls[d[2]].name = Web

\* the kinds whose probe has returned normally
Succeeded == {k \in Kinds : outcome[k] = "ok"}

\* C26: a probe that ends on a provider error leaves the result map exactly as
\* it was before the call; and once every probe of a run on a fresh coordinator
\* has returned, the keys of the result map, and of the snapshot written from
\* it, are exactly the kinds whose probe succeeded, each mapped to a list, all
\* fifteen being present when no probe failed.
C26_SnapshotKeySet ==
    /\ [][\A k \in Kinds :
             (outcome[k] = "pending" /\ outcome'[k] = "client_error") =>
                 discovered_resources' = discovered_resources]_vars
    /\ []((dstate \in {"running", "done", "failed"} /\ dpc > NumProbes) =>
            /\ DictKeys(discovered_resources) = Succeeded
            /\ Len(discovered_resources) = Cardinality(Succeeded)
            /\ \A k \in Succeeded :
                  DOMAIN DictGet(discovered_resources, k, <<>>) \subseteq Nat
            /\ (\A k \in Kinds : outcome[k] # "client_error") =>
                   Len(discovered_resources) = NumProbes
            /\ dstate = "done" =>
                   \E t \in DOMAIN snapshotFiles :
                       snapshotFiles[t] = discovered_resources)

\* a run has written a snapshot after two probes failed on provider errors, one
\* of them after earlier probes had filled the map
C26_Witness ==
    /\ dstate = "done"
    /\ outcome["vpcs"] = "client_error"
    /\ outcome["route53_records"] = "client_error"
    /\ Cardinality(Succeeded) = NumProbes - 2
    /\ \E t \in DOMAIN snapshotFiles : DictKeys(snapshotFiles[t]) = Succeeded

\* every concurrent probe has been called and has returned
AllReturned ==
    \A k \in ConcurrentKinds : frames[k].pc = "idle" /\ frames[k].calls >= 1

\* C27: a step changes the entry of a kind in the result map only as the
\* assignment of that kind's probe, made after its listing, and the entry is
\* then the probe's own list, whatever the kind had before; once every probe
\* has returned, in whatever interleaving and however often it was called, the
\* map has the entries the sequential order of the probes gives it.
C27_ProbeFrameAndMerge ==
    /\ [][\A k \in Kinds :
             (\/ DictHas(discovered_resources', k) # DictHas(discovered_resources, k)
              \/ DictGet(discovered_resources', k, <<>>)
                   # DictGet(discovered_resources, k, <<>>)) =>
                 /\ frames[k].pc = "listed"
                 /\ frames'[k].pc = "idle"
                 /\ DictGet(discovered_resources', k, <<>>) = frames[k].local]_vars
    /\ [](AllReturned =>
            /\ DictKeys(discovered_resources) = ConcurrentKinds
            /\ Len(discovered_resources) = Cardinality(ConcurrentKinds)
            /\ \A k \in ConcurrentKinds :
                  DictGet(discovered_resources, k, <<>>)
                     = DictGet(DiscoveredBy(account, NumProbes), k, <<>>))

\* every probe has returned, the instance probe twice, and its assignment was
\* not the first one: the zone probe's was
C27_Witness ==
    /\ AllReturned
    /\ frames["ec2_instances"].calls = 2
    /\ discovered_resources[1].k = "route53_zones"
    /\ Len(DictGet(discovered_resources, "ec2_instances", <<>>)) = 1
    /\ Len(account.listing["ec2_instances"]) = 2

\* no two import directives of the file for distinct resources have one address
DistinctImportAddresses(f) ==
    \A i, j \in DOMAIN bundle[f].imports :
        LET a == bundle[f].imports[i]
            b == bundle[f].imports[j]
        IN  (a.type # b.type \/ a.id # b.id) => (a.type # b.type \/ a.name # b.name)

\* no two declaration blocks of the file have the same type and name
DistinctDeclarations(f) ==
    \A i, j \in DOMAIN bundle[f].decls :
        LET a == bundle[f].decls[i]
            b == bundle[f].decls[j]
        IN  i # j => (a.type # b.type \/ a.name # b.name)

\* C28 as claimed: in the bundle of a generation run over one snapshot, no two
\* distinct resources have the same import address, and no region file has two
\* declaration blocks with the same type and name.
C28_AddressesCollisionFree ==
    (gstate = "done" /\ Cardinality(DOMAIN snapshotFiles) = 1) =>
        /\ \A f \in DOMAIN bundle : DistinctImportAddresses(f)
        /\ \A f \in RegionFilesOfBundle : DistinctDeclarations(f)

\* C29: in every file of the bundle the import directives and the declaration
\* blocks pair up, resource by resource in the order of rendering, and the
\* address of each import directive is the type and the name of the declaration
\* block of its resource.
C29_ImportMatchesDeclaration ==
    \A f \in DOMAIN bundle :
        /\ Len(bundle[f].imports) = Len(bundle[f].decls)
        /\ \A i \in DOMAIN bundle[f].imports :
              /\ bundle[f].imports[i].type = bundle[f].decls[i].type
              /\ bundle[f].imports[i].name = bundle[f].decls[i].name

\* a region file holds the import directive and the declaration of a DNS
\* record, under a name in which characters of the id have been replaced
C29_Witness ==
    \E f \in RegionFilesOfBundle :
        \E i \in DOMAIN bundle[f].imports :
            /\ bundle[f].imports[i].type = "aws_route53_record"
            /\ bundle[f].decls[i].name = bundle[f].imports[i].name
            /\ bundle[f].imports[i].name
                  # <<"route53_record", "_">> \o bundle[f].imports[i].id

\* C30: when a record listing of the DNS-record probe ends on a provider
\* error, the result map has no DNS-record entry, whatever the zones listed
\* before it held; when the map has no zone (none found, or the zone probe
\* failed), the probe makes no listing call and stores an empty list.
C30_RecordProbeAllOrNothing ==
    /\ outcome["route53_records"] = "client_error" =>
           ~DictHas(discovered_resources, "route53_records")
    /\ (outcome["route53_records"] # "pending" /\ ZonesToList(discovered_resources) = <<>>) =>
           /\ listedZones = <<>>
           /\ outcome["route53_records"] = "ok"
           /\ DictHas(discovered_resources, "route53_records")
           /\ DictGet(discovered_resources, "route53_records", <<>>) = <<>>

\* the listing of the second zone failed after the first zone, which has a
\* record that is kept, had been listed; the run has written its snapshot
C30_Witness ==
    /\ dstate = "done"
    /\ outcome["route53_records"] = "client_error"
    /\ listedZones = <<Zone1, Zone2>>
    /\ RecordsOfZone(ZonesToList(discovered_resources)[1], account.records[Zone1]) # <<>>
    /\ \E t \in DOMAIN snapshotFiles : ~DictHas(snapshotFiles[t], "route53_records")

====
